---- MODULE Spec2Model ----
(***************************************************************************)
(* A model of poggle: the ball pool, the peg list, the stepper             *)
(* (Poggle::update), the collision predictor (Ball::will_collide), the     *)
(* resolver, the energy diagnostics and the host loop (sdl::run).          *)
(*                                                                         *)
(* Numbers.  The program computes in f32.  The model computes in fixed     *)
(* point: a number v is held as the integer v * SCALE, products and        *)
(* quotients are truncated towards zero, and a square root is the integer  *)
(* square root.  Every expression is evaluated in the order the source     *)
(* evaluates it.  Signed zero, infinities and NaN have no counterpart.     *)
(*                                                                         *)
(* Board.  The physical constants (ball and peg radius, gravity,           *)
(* elasticity, the tick rate, the predictor's thresholds) are the          *)
(* program's.  The playfield and the literals Poggle::new lays the board   *)
(* out with are reduced (the definitions under "Board" say from what), so  *)
(* that a ball crosses the board in a few dozen ticks and the predictor's  *)
(* intermediate values stay inside the integers of the model checker.      *)
(***************************************************************************)
EXTENDS Integers, Sequences, FiniteSets, TLC

(***************************************************************************)
(* Program constants                                                       *)
(***************************************************************************)
UPDATES_PER_SECOND == 60
FRAMES_PER_SECOND == 60

\* One unit of the fixed-point representation is 1/SCALE; with this choice
\* the tick length 1/60 s is the integer 4.
SCALE == 4 * UPDATES_PER_SECOND

Ball_RADIUS_PX == 6
Peg_RADIUS_PX == 6
GRAVITY_Y_PX == 550
\* Ball::ELASTICITY is 0.9 = ELASTICITY_TENTHS / 10
ELASTICITY_TENTHS == 9
\* the direction guard of will_collide applies above 165 * dt
GUARD_SPEED_PX == 165
\* the time-window test of will_collide scales by 0.99 = WINDOW_PERCENT / 100
WINDOW_PERCENT == 99

(***************************************************************************)
(* Board: the playfield and the layout literals of Poggle::new, reduced.   *)
(*   WINDOW_WIDTH 1280, WINDOW_HEIGHT 800, grid origin (100, 400), grid    *)
(*   end (WINDOW_WIDTH - 100, 700), spacing 75, amount 200, space 11,      *)
(*   offset 15, ball row y = 100.                                          *)
(***************************************************************************)
WINDOW_WIDTH == 52
WINDOW_HEIGHT == 56
GridOriginX == 20
GridOriginY == 16
GridEndY == 50
Spacing == 34
Amount == 1
BallSpace == 4
BallOffset == 15
BallRowY == 4

(***************************************************************************)
(* Bounds of the model                                                     *)
(***************************************************************************)
\* Poggle::tick counts without bound: the steps explored
MaxTick == 48
\* the steps the host loop is followed for
HostMaxTick == 10
\* the calls of shoot explored
MaxShots == 2
\* the fixed-point error allowed on a speed, in percent
SpeedTolerancePercent == 1
\* shoot is called only between steps whose number is a multiple of this
ShootEvery == 8

(***************************************************************************)
(* f32 arithmetic, in fixed point                                          *)
(***************************************************************************)
IntMax == 2 * 1073741823 + 1

Abs(a) == IF a < 0 THEN -a ELSE a
Sgn(a) == IF a < 0 THEN -1 ELSE 1

\* the f32 value of an integer literal
F(n) == n * SCALE

\* a * b
Mul(a, b) ==
    LET x == Abs(a)
        y == Abs(b)
    IN  Sgn(a) * Sgn(b) * ((x \div SCALE) * y + ((x % SCALE) * y) \div SCALE)

\* a / b, b # 0
Div(a, b) == Sgn(a) * Sgn(b) * ((Abs(a) * SCALE) \div Abs(b))

RECURSIVE Newton(_, _)
Newton(n, x) ==
    LET y == (x + n \div x) \div 2
    IN  IF y >= x THEN x ELSE Newton(n, y)

\* the integer square root of n >= 0
ISqrt(n) == IF n < 2 THEN n ELSE Newton(n, IF n < 46341 THEN n ELSE 46341)

RECURSIVE Sqrt(_)
\* a.sqrt(), a >= 0
Sqrt(a) == IF a > IntMax \div SCALE THEN 2 * Sqrt(a \div 4) ELSE ISqrt(a * SCALE)

\* f32::signum: 1.0 for +0.0 and positive numbers, -1.0 for negative ones
signum(a) == IF a >= 0 THEN 1 ELSE -1

(***************************************************************************)
(* shape.rs: Point<f32>                                                    *)
(***************************************************************************)
Point(x, y) == [x |-> x, y |-> y]
zero == Point(0, 0)

add(p, q) == Point(p.x + q.x, p.y + q.y)
sub(p, q) == Point(p.x - q.x, p.y - q.y)
mul(p, k) == Point(Mul(p.x, k), Mul(p.y, k))
div(p, k) == Point(Div(p.x, k), Div(p.y, k))
to(p, q) == sub(q, p)
dot(p, q) == Mul(p.x, q.x) + Mul(p.y, q.y)
length_squared(p) == dot(p, p)
distance_to_squared(p, q) == length_squared(to(p, q))
is_longer_than(p, r) == length_squared(p) > Mul(r, r)
length(p) == Sqrt(length_squared(p))
distance_to(p, q) == Sqrt(distance_to_squared(p, q))
normalized(p) == div(p, length(p))

\* Point::with_length is not in shape.rs; the spec: "scale the resulting
\* velocity to length L".  A vector of length zero has no direction to scale.
with_length(p, len) == IF length(p) = 0 THEN p ELSE mul(normalized(p), len)

\* Point::kinetic_energy is not in shape.rs; the spec: |velocity|^2 / 2.
kinetic_energy(p) == Div(length_squared(p), F(2))

(***************************************************************************)
(* shape.rs: Body, Region, solve_quadratic                                 *)
(***************************************************************************)
Body(pos, radius) == [pos |-> pos, radius |-> radius]

\* Body::extend is not in shape.rs; the spec: the effective collision
\* distance is the sum of the radii.
extend(body, by) == Body(body.pos, body.radius + by)

contains(body, p) == length_squared(sub(body.pos, p)) <= Mul(body.radius, body.radius)

None == [some |-> FALSE]
Some(v) == [some |-> TRUE, val |-> v]

solve_quadratic(a, b, c) ==
    LET midpoint == Div(-b, Mul(F(2), a))
        v == Mul(b, b) - Mul(Mul(F(4), a), c)
        delta == Div(Sqrt(v), Mul(F(2), a))
    IN  IF v < 0 THEN None ELSE Some(<<midpoint + delta, midpoint - delta>>)


(***************************************************************************)
(* poggle.rs: Ball, Peg                                                    *)
(***************************************************************************)
Ball_RADIUS == F(Ball_RADIUS_PX)
Ball_ELASTICITY == Div(F(ELASTICITY_TENTHS), F(10))
GRAVITY == Point(0, F(GRAVITY_Y_PX))

\* Ball::new
Ball_new(pos, velocity) == [pos |-> pos, velocity |-> velocity, start |-> pos]

Peg(pos) == [body |-> Body(pos, F(Peg_RADIUS_PX)), is_hit |-> FALSE, peg_type |-> "Standard"]

\* Duration::as_secs_f32 of the host's update_delta, 1 s / UPDATES_PER_SECOND
update_delta == Div(F(1), F(UPDATES_PER_SECOND))

\* Ball::will_collide, the branch |movement.x| < 1.0
will_collide_vertical(self, other, time, movement) ==
    LET p == other.pos.x
        q == other.pos.y
        r == other.radius + Ball_RADIUS
        d == self.pos.x
        a == F(1)
        b == Mul(F(-2), q)
        c == Mul(p, p) - Mul(r, r) + Mul(q, q) - Mul(Mul(F(2), d), p) + Mul(d, d)
        closest(y1, y2) == IF Abs(y1 - self.pos.y) < Abs(y2 - self.pos.y) THEN y1 ELSE y2
        at(y_new) ==
            IF /\ is_longer_than(movement, Mul(F(GUARD_SPEED_PX), time))
               /\ signum(self.velocity.y) # signum(y_new - self.pos.y)
            THEN None
            ELSE Some(Point(self.pos.x, y_new))
        solved(roots) == IF ~roots.some THEN None ELSE at(closest(roots.val[1], roots.val[2]))
    IN  solved(solve_quadratic(a, b, c))

\* Ball::will_collide, the general branch
will_collide_general(self, other, time, movement) ==
    LET m == Div(movement.y, movement.x)
        k == self.pos.y - Mul(self.pos.x, m)
        p == other.pos.x
        q == other.pos.y
        r == other.radius + Ball_RADIUS
        a == Mul(m, m) + F(1)
        b == Mul(F(2), Mul(m, k) - Mul(m, q) - p)
        c == Mul(q, q) - Mul(r, r) + Mul(p, p) - Mul(Mul(F(2), k), q) + Mul(k, k)
        closest(x1, x2) == IF Abs(x1 - self.pos.x) < Abs(x2 - self.pos.x) THEN x1 ELSE x2
        within(collision) ==
            IF Mul(distance_to_squared(self.pos, collision), Div(F(WINDOW_PERCENT), F(100)))
                   > length_squared(movement)
            THEN None
            ELSE Some(collision)
        at(x_new) ==
            IF /\ is_longer_than(movement, Mul(F(GUARD_SPEED_PX), time))
               /\ signum(movement.x) # signum(x_new - self.pos.x)
            THEN None
            ELSE within(Point(x_new, Mul(m, x_new) + k))
        solved(roots) == IF ~roots.some THEN None ELSE at(closest(roots.val[1], roots.val[2]))
    IN  solved(solve_quadratic(a, b, c))

\* Ball::will_collide for Shape::Circle
will_collide(self, other, time) ==
    LET moving(movement) ==
            LET reach == other.radius + Ball_RADIUS + length(movement)
            IN  IF distance_to_squared(self.pos, other.pos) > Mul(reach, reach) THEN None
                ELSE IF Abs(movement.x) < F(1)
                THEN will_collide_vertical(self, other, time, movement)
                ELSE will_collide_general(self, other, time, movement)
    IN  moving(mul(self.velocity, time))

potential_energy(self) == Mul(F(WINDOW_HEIGHT) - self.pos.y, GRAVITY.y)
total_energy(self) == kinetic_energy(self.velocity) + potential_energy(self)

\* Render for Ball: the colour the ball is filled with
ball_colour(self) ==
    LET start == Ball_new(self.start, zero)
    IN  IF total_energy(self) > total_energy(start) THEN "GREEN" ELSE "RED"

(***************************************************************************)
(* poggle.rs: Poggle::new                                                  *)
(***************************************************************************)
RECURSIVE grid_loop(_, _, _, _, _)
grid_loop(origin, end, spacing, point, out) ==
    IF point.y <= end.y
    THEN LET x == point.x + spacing
             next == IF x > end.x THEN Point(origin.x, point.y + spacing) ELSE Point(x, point.y)
         IN  grid_loop(origin, end, spacing, next, Append(out, Peg(point)))
    ELSE out

generate_grid(origin, end, spacing) == grid_loop(origin, end, spacing, origin, <<>>)

new_pegs ==
    LET spacing == F(Spacing)
        half == Point(Div(spacing, F(2)), Div(spacing, F(2)))
        origin == Point(F(GridOriginX), F(GridOriginY))
        end == Point(F(WINDOW_WIDTH) - F(GridOriginX), F(GridEndY))
    IN  generate_grid(origin, end, spacing)
            \o generate_grid(add(origin, half), sub(end, half), spacing)

new_balls ==
    LET center == Div(F(WINDOW_WIDTH), F(2))
        position(i) == Point(center + Mul(Div(F(i), F(Amount)), F(BallSpace)) - F(BallOffset),
                             F(BallRowY))
    IN  [n \in 1..(2 * Amount + 1) |-> Ball_new(position(n - Amount - 1), zero)]

(***************************************************************************)
(* poggle.rs: Poggle::update, one ball                                     *)
(***************************************************************************)
\* lines 240-252: a ball inside the extended peg is put on its rim
push_out(ball, peg) ==
    IF contains(extend(peg.body, Ball_RADIUS), ball.pos)
    THEN [ball EXCEPT !.pos = add(peg.body.pos,
                                  with_length(to(peg.body.pos, ball.pos),
                                              peg.body.radius + Ball_RADIUS))]
    ELSE ball

\* a variant of resolve: the velocity is not scaled to the elasticity
resolve_no_rescale(ball, peg, collision, delta) ==
    LET distance_to_travel == Mul(length(ball.velocity), delta)
        bounce(reflect) ==
            add(ball.velocity, mul(mul(reflect, Abs(dot(reflect, ball.velocity))), F(2)))
        moved(velocity) ==
            [ball EXCEPT !.velocity = velocity,
                         !.pos = add(collision,
                                     mul(normalized(velocity),
                                         distance_to_travel - distance_to(ball.pos, collision)))]
    IN  moved(bounce(normalized(to(peg.body.pos, collision))))

\* lines 254-267: the resolver
resolve(ball, peg, collision, delta) ==
    LET start_velocity == ball.velocity
        distance_to_travel == Mul(length(ball.velocity), delta)
        bounce(reflect) ==
            add(ball.velocity, mul(mul(reflect, Abs(dot(reflect, ball.velocity))), F(2)))
        moved(velocity) ==
            [ball EXCEPT !.velocity = velocity,
                         !.pos = add(collision,
                                     mul(normalized(velocity),
                                         distance_to_travel - distance_to(ball.pos, collision)))]
    IN  moved(with_length(bounce(normalized(to(peg.body.pos, collision))),
                          Mul(length(start_velocity), Ball_ELASTICITY)))

\* a variant of next_peg: the scan goes on after a collision
next_peg_no_break(i, ps, collided) == i + 1

\* line 274: `break` after a collision, the next peg of the list otherwise
next_peg(i, ps, collided) == IF collided THEN Len(ps) + 1 ELSE i + 1

\* lines 239-276: the scan of the pegs, from peg i on.  The result is the
\* ball and the record of the scan: one entry for each peg tested.
RECURSIVE scan_pegs(_, _, _, _, _)
scan_pegs(ball, ps, i, delta, tested) ==
    LET predicted(pushed, c) ==
            IF c.some
            THEN scan_pegs(resolve(pushed, ps[i], c.val, delta), ps,
                           next_peg(i, ps, TRUE), delta,
                           Append(tested, [peg |-> i, collided |-> TRUE,
                                           at |-> c.val, before |-> pushed]))
            ELSE scan_pegs(pushed, ps, next_peg(i, ps, FALSE), delta,
                           Append(tested, [peg |-> i, collided |-> FALSE]))
        test(pushed) == predicted(pushed, will_collide(pushed, ps[i].body, delta))
    IN  IF i > Len(ps) THEN [ball |-> ball, tested |-> tested]
        ELSE test(push_out(ball, ps[i]))

\* a variant of fell_out: the diameter for the radius
fell_out_diameter(ball) == ball.pos.y > F(WINDOW_HEIGHT) + Mul(F(2), Ball_RADIUS)

\* lines 231-233
fell_out(ball) == ball.pos.y > F(WINDOW_HEIGHT) + Ball_RADIUS

\* a variant of integrate: the position advances by the velocity before gravity
integrate_explicit(ball, d) ==
    [ball EXCEPT !.velocity = add(ball.velocity, mul(GRAVITY, d)),
                 !.pos = add(ball.pos, mul(ball.velocity, d))]

\* lines 235-237
integrate(ball, d) ==
    LET velocity == add(ball.velocity, mul(GRAVITY, d))
    IN  [ball EXCEPT !.velocity = velocity, !.pos = add(ball.pos, mul(velocity, d))]

\* a variant of outside_walls: the left wall is not tested
outside_walls_right_only(ball) == ball.pos.x > F(WINDOW_WIDTH) - Div(Ball_RADIUS, F(2))

\* lines 278-282
outside_walls(ball) ==
    \/ ball.pos.x < Div(Ball_RADIUS, F(2))
    \/ ball.pos.x > F(WINDOW_WIDTH) - Div(Ball_RADIUS, F(2))

side_walls(ball) ==
    IF outside_walls(ball)
    THEN [ball EXCEPT !.velocity.x = Mul(ball.velocity.x, F(-1))]
    ELSE ball

\* the closure of retain_mut, lines 230-291: what it does to one ball, with
\* the intermediate values the properties speak of
step_ball(ball, ps, delta) ==
    IF fell_out(ball) THEN [retain |-> FALSE, from |-> ball, tested |-> <<>>]
    ELSE LET result(integrated, scanned) ==
                 [retain |-> TRUE, from |-> ball, integrated |-> integrated,
                  tested |-> scanned.tested, scanned |-> scanned.ball,
                  ball |-> side_walls(scanned.ball)]
             scan(integrated) ==
                 result(integrated, scan_pegs(integrated, ps, 1, delta, <<>>))
         IN  scan(integrate(ball, delta))

(***************************************************************************)
(* State                                                                   *)
(***************************************************************************)
VARIABLES
    balls,        \* Poggle::balls
    pegs,         \* Poggle::pegs
    tick,         \* Poggle::tick
    mouse_down,   \* sdl::run: mouse_down
    target_start, \* sdl::run: target_start
    target_end,   \* sdl::run: target_end
    is_running,   \* sdl::run: is_running
    pc,           \* sdl::run: the position in the body of the loop
    ahead,        \* sdl::run: the updates made minus the frames rendered
    tags,         \* history: for each ball of the pool, its identity and launch velocity
    shots,        \* history: the number of calls of shoot
    shot,         \* history: the last call of shoot
    stepped,      \* history: what the last step did to each ball
    hit_since,    \* history: the pegs a ball collided with since the pool was last
                  \* empty at the end of a step
    rounds,       \* history: the number of steps that ended with the pool empty
    predicted,    \* history: the last call of Ball::will_collide made on its own
    frame         \* history: the last frame rendered

poggle == <<balls, pegs, tick>>
host == <<mouse_down, target_start, target_end, is_running, pc, ahead>>
history == <<tags, shots, shot, stepped, hit_since, rounds, predicted, frame>>
vars == <<poggle, host, history>>

\* the inputs of shoot the model draws from
ShootOrigins ==
    {Point(F(1), F(70)), Point(F(5), F(30)), Point(F(26), F(8)), Point(F(20), F(30))}
ShootVelocities == {Point(F(-120), F(0)), Point(F(60), F(-30)), Point(F(0), F(-300))}
\* the mouse positions the model draws from: whole pixels
MousePoints == {Point(F(45), F(55)), Point(F(26), F(8))}

(***************************************************************************)
(* poggle.rs: Poggle::new, Poggle::shoot, Poggle::update                   *)
(***************************************************************************)
Init ==
    /\ balls = new_balls
    /\ pegs = new_pegs
    /\ tick = 0
    /\ mouse_down = FALSE
    /\ target_start = None
    /\ target_end = None
    /\ is_running = TRUE
    /\ pc = "poll"
    /\ ahead = 0
    /\ tags = [n \in 1..Len(new_balls) |-> [id |-> n, launch |-> zero]]
    /\ shots = 0
    /\ shot = None
    /\ stepped = None
    /\ hit_since = [j \in 1..Len(new_pegs) |-> FALSE]
    /\ rounds = 0
    /\ predicted = None
    /\ frame = None

\* a variant of shoot: the ball is put at the front of the pool
shoot_front(bs, origin, velocity) == <<Ball_new(origin, velocity)>> \o bs

\* Poggle::shoot
shoot(bs, origin, velocity) == Append(bs, Ball_new(origin, velocity))

\* a call of shoot, made by `by` with the drag started at `start` (None
\* outside the host loop) and the mouse at `at`
call_shoot(origin, velocity, by, start, at) ==
    /\ shots < MaxShots
    /\ tick % ShootEvery = 0
    /\ balls' = shoot(balls, origin, velocity)
    /\ tags' = Append(tags, [id |-> Len(new_balls) + shots + 1, launch |-> velocity])
    /\ shots' = shots + 1
    /\ shot' = Some([origin |-> origin, velocity |-> velocity, by |-> by,
                      start |-> start, at |-> at])
    /\ UNCHANGED <<pegs, tick, stepped, hit_since, rounds, predicted, frame>>

Retained(r) == r.retain

\* the pegs some ball of this step collided with
collided_pegs(results) ==
    {j \in 1..Len(pegs) : \E i \in 1..Len(results) :
        /\ results[i].retain
        /\ \E n \in 1..Len(results[i].tested) :
              results[i].tested[n].collided /\ results[i].tested[n].peg = j}

\* a variant of mark_hits: the flag is not set
mark_hits_none(ps, hit) == ps

\* line 268
mark_hits(ps, hit) ==
    [j \in 1..Len(ps) |-> IF j \in hit THEN [ps[j] EXCEPT !.is_hit = TRUE] ELSE ps[j]]

\* a variant of round_reset: the flags are kept
round_reset_never(ps, bs) == ps

\* lines 293-297
round_reset(ps, bs) ==
    IF bs = <<>> THEN [j \in 1..Len(ps) |-> [ps[j] EXCEPT !.is_hit = FALSE]] ELSE ps

\* Poggle::update
update(delta) ==
    /\ LET retained(results, kept, hit) ==
               LET pool == [n \in 1..Len(kept) |-> kept[n].ball]
               IN  /\ balls' = pool
                   /\ tags' = [n \in 1..Len(kept) |-> kept[n].tag]
                   /\ pegs' = round_reset(mark_hits(pegs, hit), pool)
                   /\ hit_since' = IF pool = <<>> THEN [j \in 1..Len(pegs) |-> FALSE]
                                   ELSE [j \in 1..Len(pegs) |-> hit_since[j] \/ j \in hit]
                   /\ rounds' = IF pool = <<>> THEN rounds + 1 ELSE rounds
                   /\ stepped' = Some([results |-> results,
                                       was_hit |-> [j \in 1..Len(pegs) |-> pegs[j].is_hit]])
           retain_mut(results) ==
               retained(results, SelectSeq(results, Retained), collided_pegs(results))
       IN  retain_mut([i \in 1..Len(balls) |->
                          [tag |-> tags[i]] @@ step_ball(balls[i], pegs, delta)])
    /\ tick' = tick + 1
    /\ UNCHANGED <<shots, shot, predicted, frame>>

(***************************************************************************)
(* The operations of Poggle, called in any order                           *)
(***************************************************************************)
Shoot(origin, velocity) ==
    /\ call_shoot(origin, velocity, "caller", None, origin)
    /\ UNCHANGED host

Update ==
    /\ tick < MaxTick
    /\ update(update_delta)
    /\ UNCHANGED host

Next ==
    \/ \E origin \in ShootOrigins, velocity \in ShootVelocities : Shoot(origin, velocity)
    \/ Update

Spec == Init /\ [][Next]_vars

(***************************************************************************)
(* sdl.rs: run, the host loop                                              *)
(***************************************************************************)
\* Render for Peg: the colour of a peg (all pegs are PegType::Standard)
peg_colour(peg) == IF peg.is_hit THEN "YELLOW" ELSE "BLUE"

\* lines 82-90
MouseButtonDown(p) ==
    /\ pc = "poll"
    /\ mouse_down' = TRUE
    /\ target_start' = Some(p)
    /\ UNCHANGED <<poggle, target_end, is_running, pc, ahead, history>>

\* lines 91-97, the mouse button held
MouseMotionDragging(p) ==
    /\ pc = "poll"
    /\ mouse_down
    /\ call_shoot(p, zero, "motion", target_start, p)
    /\ target_end' = Some(p)
    /\ UNCHANGED <<mouse_down, target_start, is_running, pc, ahead>>

\* lines 91-97, the mouse button not held
MouseMotionFree(p) ==
    /\ pc = "poll"
    /\ ~mouse_down
    /\ target_end' = Some(p)
    /\ UNCHANGED <<poggle, mouse_down, target_start, is_running, pc, ahead, history>>

\* lines 98-111, with a drag started
MouseButtonUpShoot(p) ==
    /\ pc = "poll"
    /\ target_start.some
    /\ LET origin == target_start.val
           end == p
           velocity == sub(origin, end)
       IN  call_shoot(origin, velocity, "up", target_start, p)
    /\ mouse_down' = FALSE
    /\ target_start' = None
    /\ target_end' = None
    /\ UNCHANGED <<is_running, pc, ahead>>

\* lines 98-111, with no drag started
MouseButtonUpIdle(p) ==
    /\ pc = "poll"
    /\ ~target_start.some
    /\ mouse_down' = FALSE
    /\ UNCHANGED <<poggle, target_start, target_end, is_running, pc, ahead, history>>

\* lines 77-81
Quit ==
    /\ pc = "poll"
    /\ is_running
    /\ is_running' = FALSE
    /\ UNCHANGED <<poggle, mouse_down, target_start, target_end, pc, ahead, history>>

\* line 75: poll_iter has no more events
EventsDone ==
    /\ pc = "poll"
    /\ pc' = "render"
    /\ UNCHANGED <<poggle, mouse_down, target_start, target_end, is_running, ahead, history>>

\* lines 118-130, now >= next_render
RenderFrame ==
    /\ pc = "render"
    /\ frame' = Some([tick |-> tick,
                      pool |-> balls,
                      tags |-> tags,
                      balls |-> [i \in 1..Len(balls) |-> ball_colour(balls[i])],
                      pegs |-> [j \in 1..Len(pegs) |-> peg_colour(pegs[j])],
                      line |-> target_start.some /\ target_end.some])
    /\ ahead' = ahead - 1
    /\ pc' = "update"
    /\ UNCHANGED <<poggle, mouse_down, target_start, target_end, is_running>>
    /\ UNCHANGED <<tags, shots, shot, stepped, hit_since, rounds, predicted>>

\* lines 118-130, now < next_render
RenderSkip ==
    /\ pc = "render"
    /\ pc' = "update"
    /\ UNCHANGED <<poggle, mouse_down, target_start, target_end, is_running, ahead, history>>

\* The two clocks.  next_update is taken before next_render (lines 63, 67),
\* both advance by 1/60 s and one value of `now` (line 116) decides both
\* tests.  So a frame rendered with no update outstanding forces the update
\* (ahead = -1), and with an update outstanding and no frame rendered the
\* next update is not due (ahead = 1).
\* lines 132-136, now >= next_update
UpdateDue ==
    /\ pc = "update"
    /\ ahead <= 0
    /\ tick < HostMaxTick
    /\ update(update_delta)
    /\ ahead' = ahead + 1
    /\ pc' = IF is_running THEN "poll" ELSE "done"
    /\ UNCHANGED <<mouse_down, target_start, target_end, is_running>>

\* lines 132-136, now < next_update
UpdateSkip ==
    /\ pc = "update"
    /\ ahead >= 0
    /\ pc' = IF is_running THEN "poll" ELSE "done"
    /\ UNCHANGED <<poggle, mouse_down, target_start, target_end, is_running, ahead, history>>

HostNext ==
    \/ \E p \in MousePoints : MouseButtonDown(p)
    \/ \E p \in MousePoints : MouseMotionDragging(p)
    \/ \E p \in MousePoints : MouseMotionFree(p)
    \/ \E p \in MousePoints : MouseButtonUpShoot(p)
    \/ \E p \in MousePoints : MouseButtonUpIdle(p)
    \/ Quit
    \/ EventsDone
    \/ RenderFrame
    \/ RenderSkip
    \/ UpdateDue
    \/ UpdateSkip

HostSpec == Init /\ [][HostNext]_vars

(***************************************************************************)
(* poggle.rs: Ball::will_collide, called on its own                        *)
(***************************************************************************)
\* the balls, the circles and the durations the predictor is called with
ProbePositions == {Point(F(0), F(0)), Point(F(26), F(8)), Point(F(20), F(4)), Point(F(20), F(30))}
ProbeVelocities ==
    {zero, Point(F(100), F(0)), Point(F(30), F(0)), Point(F(0), F(120)), Point(F(60), F(60))}
ProbeBodies == {Body(Point(F(50), F(0)), F(10)), Body(Point(F(50), F(100)), F(10)),
                Body(Point(F(20), F(16)), F(Peg_RADIUS_PX))}
ProbeTimes == {update_delta, F(1)}

PredictInit ==
    /\ \E pos \in ProbePositions, velocity \in ProbeVelocities :
           /\ balls = <<Ball_new(pos, velocity)>>
           /\ tags = <<[id |-> 1, launch |-> velocity]>>
    /\ \E body \in ProbeBodies :
           pegs = <<[body |-> body, is_hit |-> FALSE, peg_type |-> "Standard"]>>
    /\ tick = 0
    /\ mouse_down = FALSE
    /\ target_start = None
    /\ target_end = None
    /\ is_running = TRUE
    /\ pc = "poll"
    /\ ahead = 0
    /\ shots = 0
    /\ shot = None
    /\ stepped = None
    /\ hit_since = <<FALSE>>
    /\ rounds = 0
    /\ predicted = None
    /\ frame = None

\* one call of Ball::will_collide: no state of the board changes
Predict(time) ==
    /\ ~predicted.some
    /\ predicted' = Some([ball |-> balls[1], body |-> pegs[1].body, time |-> time,
                           result |-> will_collide(balls[1], pegs[1].body, time)])
    /\ UNCHANGED <<poggle, host, tags, shots, shot, stepped, hit_since, rounds, frame>>

PredictNext == \E time \in ProbeTimes : Predict(time)

PredictSpec == PredictInit /\ [][PredictNext]_vars

(***************************************************************************)
(* Properties                                                              *)
(***************************************************************************)
Bottom == F(WINDOW_HEIGHT) + Ball_RADIUS
Results == IF stepped.some THEN stepped.val.results ELSE <<>>
InPool(id) == \E n \in 1..Len(tags) : tags[n].id = id
\* the last frame was rendered after the last step and before any later one
FrameAfterStep == frame.some /\ stepped.some /\ frame.val.tick = tick
InFrame(id) == \E n \in 1..Len(frame.val.tags) : frame.val.tags[n].id = id

\* C1, as stated: a ball whose y exceeds WINDOW_HEIGHT + Ball::RADIUS after
\* the integration of a step is absent from the pool the frame rendered
\* after that step reads.
C1_AbsentFromNextFrame ==
    FrameAfterStep =>
        \A i \in 1..Len(Results) :
            (Results[i].retain /\ Results[i].integrated.pos.y > Bottom)
                => ~InFrame(Results[i].tag.id)

\* C1, amended: a ball whose y exceeds WINDOW_HEIGHT + Ball::RADIUS when a
\* step begins is dropped by that step: it is absent from the pool once the
\* step completes and from the frame rendered after it.
C1_DroppedByTheNextStep ==
    \A i \in 1..Len(Results) :
        Results[i].from.pos.y > Bottom
            => /\ ~Results[i].retain
               /\ ~InPool(Results[i].tag.id)
               /\ (FrameAfterStep => ~InFrame(Results[i].tag.id))

\* C1, witness: a frame rendered after a step that dropped a ball which the
\* step before had moved below the bottom.
C1_Witness ==
    /\ FrameAfterStep
    /\ \E i \in 1..Len(Results) : Results[i].from.pos.y > Bottom /\ ~Results[i].retain

\* C2: whenever the pool is empty, at the end of a step and until the next
\* shoot, every peg's is_hit is false.
C2_EmptyPoolMeansNoPegHit ==
    balls = <<>> => \A j \in 1..Len(pegs) : ~pegs[j].is_hit

\* C2, witness: a step ended with the pool empty and reset a peg that was hit.
C2_Witness ==
    /\ stepped.some
    /\ balls = <<>>
    /\ \E j \in 1..Len(pegs) : stepped.val.was_hit[j] /\ ~pegs[j].is_hit

\* C3: a peg's is_hit is true exactly when a ball has collided with it in a
\* step since the last step that ended with the pool empty.
C3_HitIffCollidedSinceEmpty ==
    \A j \in 1..Len(pegs) : pegs[j].is_hit <=> hit_since[j]

\* C3, witness: after a step that ended with the pool empty, a ball shot
\* later has just collided with a peg, and a peg is not hit.
C3_Witness ==
    /\ rounds > 0
    /\ \E j \in 1..Len(pegs) : pegs[j].is_hit /\ hit_since[j] /\ ~stepped.val.was_hit[j]
    /\ \E j \in 1..Len(pegs) : ~pegs[j].is_hit

\* C4, as stated: in the state the constructor returns the pool is empty and
\* no peg is hit, and balls enter the pool only through shoot.
C4_ConstructedPoolIsEmpty ==
    /\ (tick = 0 /\ shots = 0) => (balls = <<>> /\ \A j \in 1..Len(pegs) : ~pegs[j].is_hit)
    /\ Len(balls) <= shots

\* C5: a call of shoot appends one ball with pos = origin, the velocity given
\* and start = origin at the end of the pool and leaves the balls there, the
\* pegs and the tick as they are; no origin and no velocity is refused.
C5_ShootAppendsOneBall ==
    /\ [][shots' # shots =>
            /\ shot'.some
            /\ balls' = Append(balls, [pos |-> shot'.val.origin,
                                       velocity |-> shot'.val.velocity,
                                       start |-> shot'.val.origin])
            /\ Len(balls') = Len(balls) + 1
            /\ \A i \in 1..Len(balls) : balls'[i] = balls[i]
            /\ pegs' = pegs
            /\ tick' = tick]_vars
    /\ [](\A origin \in ShootOrigins, velocity \in ShootVelocities :
            (shots < MaxShots /\ tick % ShootEvery = 0) => ENABLED Shoot(origin, velocity))

\* C5, witness: a ball shot from below the playfield towards the left is the
\* last of a pool that held other balls.
C5_Witness ==
    /\ shot.some
    /\ Len(balls) > 1
    /\ balls[Len(balls)] = [pos |-> shot.val.origin, velocity |-> shot.val.velocity,
                            start |-> shot.val.origin]
    /\ shot.val.origin.y > Bottom
    /\ shot.val.velocity.x < 0

\* whether the scan of result r ended with a collision
Collided(r) == r.retain /\ Len(r.tested) > 0 /\ r.tested[Len(r.tested)].collided
LastTested(r) == r.tested[Len(r.tested)]

\* C6: in a step the pegs are tested for a ball in list order; the scan ends
\* with the first peg the predictor reports a collision for, so no later peg
\* is tested, at most one peg gets is_hit from the ball and at most one peg
\* changes the ball's velocity.
C6_FirstCollisionEndsTheScan ==
    \A i \in 1..Len(Results) :
        LET r == Results[i]
            n == Len(r.tested)
        IN  r.retain =>
              /\ \A k \in 1..n : r.tested[k].peg = k /\ (r.tested[k].collided => k = n)
              /\ n < Len(pegs) => Collided(r)
              /\ Cardinality({k \in 1..n : r.tested[k].collided}) <= 1
              /\ ~Collided(r) => r.scanned.velocity = r.integrated.velocity
              /\ \A j \in 1..Len(pegs) :
                    (pegs[j].is_hit /\ ~stepped.val.was_hit[j])
                        => \E h \in 1..Len(Results) :
                              Collided(Results[h]) /\ LastTested(Results[h]).peg = j

\* C6, witness: a ball collided with a peg that is not the last of the list.
C6_Witness ==
    \E i \in 1..Len(Results) :
        Collided(Results[i]) /\ Len(Results[i].tested) < Len(pegs)

LeftWall == Div(Ball_RADIUS, F(2))

\* C7, as stated: a ball that has reached x < Ball::RADIUS / 2 has the sign of
\* its velocity x-component flipped by the next step, which does not remove it.
C7_FlippedByTheNextStep ==
    \A i \in 1..Len(Results) :
        Results[i].from.pos.x < LeftWall
            => /\ Results[i].retain
               /\ Results[i].ball.velocity.x = -Results[i].from.velocity.x

\* C7, amended: a ball whose x is below Ball::RADIUS / 2 once a step has
\* integrated it and scanned the pegs has the sign of its velocity
\* x-component flipped by that same step, which keeps it in the pool and does
\* not move it.
C7_FlippedByTheSameStep ==
    \A i \in 1..Len(Results) :
        (Results[i].retain /\ Results[i].scanned.pos.x < LeftWall)
            => /\ Results[i].ball.velocity.x = -Results[i].scanned.velocity.x
               /\ Results[i].ball.velocity.y = Results[i].scanned.velocity.y
               /\ Results[i].ball.pos = Results[i].scanned.pos
               /\ InPool(Results[i].tag.id)

\* C7, witness: a ball moving left crossed x = Ball::RADIUS / 2 in the step.
C7_Witness ==
    \E i \in 1..Len(Results) :
        /\ Results[i].retain
        /\ Results[i].from.pos.x >= LeftWall
        /\ Results[i].scanned.pos.x < LeftWall
        /\ Results[i].scanned.velocity.x < 0

\* C8, as stated: every call of shoot the host loop makes has the position of
\* the left-button-down as origin and (that position - the position of the
\* button-up) as velocity.
C8_ShootOnlyOnRelease ==
    shot.some =>
        /\ shot.val.by = "up"
        /\ shot.val.start.some
        /\ shot.val.origin = shot.val.start.val
        /\ shot.val.velocity = sub(shot.val.start.val, shot.val.at)

\* the total energy at launch: the kinetic energy of the launch velocity and
\* the potential energy at the launch position
launch_energy(ball, tag) ==
    kinetic_energy(tag.launch) + Mul(F(WINDOW_HEIGHT) - ball.start.y, GRAVITY.y)

\* C9, as stated: a ball is drawn green exactly when its total energy exceeds
\* its total energy at launch.
C9_GreenIffEnergyGained ==
    frame.some =>
        \A i \in 1..Len(frame.val.pool) :
            frame.val.balls[i] = "GREEN"
                <=> total_energy(frame.val.pool[i])
                        > launch_energy(frame.val.pool[i], frame.val.tags[i])

\* C10: the speed of a ball after a collision is resolved is its speed after
\* the integration of that step times Ball::ELASTICITY, and not above it.
C10_BounceScalesTheSpeed ==
    \A i \in 1..Len(Results) :
        LET r == Results[i]
            pre == length(LastTested(r).before.velocity)
            post == length(r.scanned.velocity)
        IN  Collided(r) =>
              /\ LastTested(r).before.velocity = r.integrated.velocity
              /\ Abs(post - Mul(pre, Ball_ELASTICITY))
                     <= (pre * SpeedTolerancePercent) \div 100 + 2
              /\ post <= pre

\* C10, witness: a ball moving sideways collided off the vertical axis of a peg.
C10_Witness ==
    \E i \in 1..Len(Results) :
        /\ Collided(Results[i])
        /\ LastTested(Results[i]).before.velocity.x # 0
        /\ LastTested(Results[i]).at.x
               # pegs[LastTested(Results[i]).peg].body.pos.x
        /\ length(LastTested(Results[i]).before.velocity) > F(GUARD_SPEED_PX)

\* the movement of the ball a collision was predicted for, and how far
\* the predicted point is from it
Movement(t) == mul(t.before.velocity, update_delta)
Reach(t) == distance_to(t.before.pos, t.at)

\* C13, as stated: a predicted collision is no farther from the ball than the
\* ball moves in the tick (here: by more than one pixel), in both branches of
\* the predictor, so the travel left to the resolver is not negative.
C13_CollisionWithinTheTick ==
    \A i \in 1..Len(Results) :
        Collided(Results[i])
            => Reach(LastTested(Results[i]))
                   <= length(Movement(LastTested(Results[i]))) + F(1)

\* C14, as stated: a predicted collision lies ahead of the ball (here: not
\* more than a quarter of a pixel behind it), by x in the general branch and
\* by y in the branch |movement.x| < 1, whatever the speed of the ball.
C14_CollisionAheadOfTheBall ==
    \A i \in 1..Len(Results) :
        LET t == LastTested(Results[i])
        IN  Collided(Results[i]) =>
              IF Abs(Movement(t).x) < F(1)
              THEN \/ signum(t.before.velocity.y) = signum(t.at.y - t.before.pos.y)
                   \/ Abs(t.at.y - t.before.pos.y) <= F(1) \div 4
              ELSE \/ signum(Movement(t).x) = signum(t.at.x - t.before.pos.x)
                   \/ Abs(t.at.x - t.before.pos.x) <= F(1) \div 4

\* velocity + gravity * dt and pos + (velocity + gravity * dt) * dt
Euler_velocity(ball) == add(ball.velocity, mul(GRAVITY, update_delta))
Euler_pos(ball) == add(ball.pos, mul(Euler_velocity(ball), update_delta))
\* whether p is within the sum of the radii of some peg
InsideSomePeg(p) == \E j \in 1..Len(pegs) : contains(extend(pegs[j].body, Ball_RADIUS), p)
\* whether p is on the rim of some extended peg, to a tenth of a pixel
OnSomeRim(p) ==
    \E j \in 1..Len(pegs) :
        Abs(distance_to(pegs[j].body.pos, p) - (pegs[j].body.radius + Ball_RADIUS))
            <= F(1) \div 10

\* C15, as stated: a ball that survives a step with no collision predicted
\* has velocity + gravity * dt as its velocity, up to the flip of the wall
\* rule, and pos + (velocity + gravity * dt) * dt as its position.
C15_PegsLeaveTheBallAlone ==
    \A i \in 1..Len(Results) :
        (Results[i].retain /\ ~Collided(Results[i]))
            => /\ Results[i].scanned.velocity = Euler_velocity(Results[i].from)
               /\ Results[i].ball.pos = Euler_pos(Results[i].from)

\* C15, amended: such a ball has velocity + gravity * dt as its velocity, up
\* to the flip of the wall rule; its position is pos + (velocity + gravity *
\* dt) * dt if that point is outside the sum of the radii of every peg, and
\* otherwise a point on the rim of a peg that pushed it out.
C15_IntegratedUnlessPushedOut ==
    \A i \in 1..Len(Results) :
        LET r == Results[i]
            v == Euler_velocity(r.from)
            p == Euler_pos(r.from)
        IN  (r.retain /\ ~Collided(r))
              => /\ r.integrated.velocity = v
                 /\ r.integrated.pos = p
                 /\ r.scanned.velocity = v
                 /\ r.ball.velocity \in {v, Point(-v.x, v.y)}
                 /\ r.ball.pos = r.scanned.pos
                 /\ ~InsideSomePeg(p) => r.scanned.pos = p
                 /\ r.scanned.pos # p => (InsideSomePeg(p) /\ OnSomeRim(r.scanned.pos))

\* C15, witness: a ball moving sideways went through a step clear of every
\* peg, and the wall rule did not turn it.
C15_Witness ==
    \E i \in 1..Len(Results) :
        /\ Results[i].retain
        /\ ~Collided(Results[i])
        /\ Results[i].from.velocity.x # 0
        /\ ~InsideSomePeg(Euler_pos(Results[i].from))
        /\ Results[i].ball = [Results[i].from EXCEPT !.pos = Euler_pos(Results[i].from),
                                                    !.velocity = Euler_velocity(Results[i].from)]

\* the cross and the dot product of (q - p) with v: the first is the distance
\* of q from the line through p along v, times |v|
Across(p, q, v) == Mul(q.x - p.x, v.y) - Mul(q.y - p.y, v.x)
Along(p, q, v) == dot(sub(q, p), v)

\* C11, as stated: a point the predictor returns is on the ball's line of
\* motion (to a quarter of a pixel), at the sum of the radii from the centre
\* of the peg (to a quarter of a pixel) and the nearer of the two
\* intersections; and the predictor returns None for a peg farther from the
\* ball than the sum of the radii plus |velocity * dt|.
C11_PointOnThePathAndTheRim ==
    predicted.some =>
        LET ball == predicted.val.ball
            body == predicted.val.body
            c == predicted.val.result
            r == body.radius + Ball_RADIUS
            movement == mul(ball.velocity, predicted.val.time)
        IN  /\ c.some =>
                  /\ Abs(Across(ball.pos, c.val, ball.velocity))
                         <= Mul(length(ball.velocity), F(1) \div 4)
                  /\ Abs(distance_to(body.pos, c.val) - r) <= F(1) \div 4
                  /\ Abs(Along(ball.pos, c.val, ball.velocity))
                         <= Abs(2 * Along(ball.pos, body.pos, ball.velocity)
                                  - Along(ball.pos, c.val, ball.velocity))
                            + Mul(length(ball.velocity), F(1) \div 4)
            /\ distance_to(ball.pos, body.pos) > r + length(movement) + F(1) \div 4
                  => ~c.some

\* C12, as stated: for a ball with velocity zero the predictor returns None,
\* also when the ball is within the sum of the radii of the peg.
C12_NoneAtRest ==
    (predicted.some /\ predicted.val.ball.velocity = zero) => ~predicted.val.result.some

====
